---- MODULE Spec2Model ----
(***************************************************************************)
(* Point-in-time alignment of macro-economic releases onto an hourly       *)
(* trading timeline: the release schedulers, the aligners and the main     *)
(* blocks of cpi_inflation_hourly.py, ppi_inflation_hourly.py,             *)
(* nfp_hourly.py, fomc_rate_hourly.py and GDP_Data.py, and the hourly      *)
(* sentiment aggregator and the windowed fetch loop of news_data.py.       *)
(*                                                                         *)
(* A state is one call of one of these functions (or one run of a main     *)
(* block): its name, its arguments, and, once it has run, what it returned *)
(* or raised.  The fetch loop takes one step per request window.           *)
(*                                                                         *)
(* Instants are counted in half hours since 2000-01-01T00:00Z, so that     *)
(* 08:30, 13:30Z and "+ 1 hour" are all whole numbers.  Values are         *)
(* tenths (10 is 1.0, 12 is 1.2).                                          *)
(***************************************************************************)
EXTENDS Integers, Sequences, FiniteSets, TLC

VARIABLES
    fn,            \* the function called
    series,        \* its observation series argument (date-indexed values)
    cpi_mom,       \* the second series argument of align_cpi_to_hours
    events,        \* its release-event argument (rate_changes, gdp_release_df)
    hourly_index,  \* its timeline argument
    df_articles,   \* the article rows given to aggregate_to_hourly
    start_dt_utc,  \* the first instant of its hourly grid, or of the fetch range
    end_dt_utc,    \* the last instant of its hourly grid, or of the fetch range
    window_days,   \* the window size given to fetch_news_sentiment_for_ticker
    feed,          \* the instants of the articles the news API holds
    window_start,  \* the start of the next request window
    all_rows,      \* the rows collected so far
    calls,         \* the request windows issued so far, as the loop prints them
    pc,            \* "call", "loop" inside the fetch loop, then "return" or "raise"
    result,        \* the value returned
    err            \* the exception raised

vars == <<fn, series, cpi_mom, events, hourly_index, df_articles, start_dt_utc,
          end_dt_utc, window_days, feed, window_start, all_rows, calls,
          pc, result, err>>

(***************************************************************************)
(* Bounds of the model.                                                    *)
(***************************************************************************)
MaxObs == 3        \* longest observation series given to a scheduler
MaxEvents == 2     \* longest series / event list given to an aligner
MaxTl == 3         \* longest hourly timeline
MaxArticles == 2   \* most article rows given to the aggregator
CpiMonths == 14    \* longest monthly CPI index series, from 2022-01
MaxDays == 3       \* longest fetch range, in days
MaxWindowDays == 2 \* largest window_days
FirstYear == 2007  \* the calendar sweep: 28 years, every kind of year
LastYear == 2034

(***************************************************************************)
(* Units and missing values.                                               *)
(***************************************************************************)
TicksPerHour == 2
TicksPerDay == 24 * TicksPerHour
NaN == -1          \* a missing float of a DataFrame column
NaT == -1          \* a timestamp that errors="coerce" could not parse

(***************************************************************************)
(* The proleptic Gregorian calendar of datetime / pandas.Timestamp.        *)
(***************************************************************************)
EpochYear == 2000
EpochWeekday == 5  \* 2000-01-01 was a Saturday (Monday = 0)

Date(y, m, d) == [year |-> y, month |-> m, day |-> d]

\* a date that errors="coerce" could not parse
NaTDate == Date(0, 0, 0)

IsLeap(y) == (y % 4 = 0 /\ y % 100 # 0) \/ y % 400 = 0

DaysInMonth(y, m) ==
    IF m = 2 THEN (IF IsLeap(y) THEN 29 ELSE 28)
    ELSE IF m \in {4, 6, 9, 11} THEN 30 ELSE 31

LeapsThrough(y) == (y \div 4) - (y \div 100) + (y \div 400)

DaysBeforeYear(y) ==
    365 * (y - EpochYear) + LeapsThrough(y - 1) - LeapsThrough(EpochYear - 1)

RECURSIVE DaysBeforeMonth(_, _)
DaysBeforeMonth(y, m) ==
    IF m = 1 THEN 0 ELSE DaysBeforeMonth(y, m - 1) + DaysInMonth(y, m - 1)

\* days since 2000-01-01
toordinal(d) == DaysBeforeYear(d.year) + DaysBeforeMonth(d.year, d.month) + d.day - 1

\* date.weekday(): Monday = 0 ... Sunday = 6
weekday(d) == (toordinal(d) + EpochWeekday) % 7

\* date + timedelta(days=1)
NextDay(d) ==
    IF d.day < DaysInMonth(d.year, d.month) THEN [d EXCEPT !.day = @ + 1]
    ELSE IF d.month < 12 THEN Date(d.year, d.month + 1, 1)
    ELSE Date(d.year + 1, 1, 1)

(***************************************************************************)
(* ZoneInfo("America/New_York"): EST (UTC-5) except between the second     *)
(* Sunday of March 02:00 and the first Sunday of November 02:00 (UTC-4).   *)
(* tod is the local time of day in ticks.                                  *)
(***************************************************************************)
FirstSunday(y, m) == 1 + ((6 - weekday(Date(y, m, 1))) % 7)

DstStart(y) == toordinal(Date(y, 3, FirstSunday(y, 3) + 7))

DstEnd(y) == toordinal(Date(y, 11, FirstSunday(y, 11)))

IsEDT(d, tod) ==
    LET o == toordinal(d)
    IN  /\ (o > DstStart(d.year) \/ (o = DstStart(d.year) /\ tod >= 3 * TicksPerHour))
        /\ (o < DstEnd(d.year) \/ (o = DstEnd(d.year) /\ tod < 2 * TicksPerHour))

utcoffset(d, tod) == IF IsEDT(d, tod) THEN 4 * TicksPerHour ELSE 5 * TicksPerHour

\* datetime(y, m, d, hh, mm, tzinfo=ny_tz).astimezone(ZoneInfo("UTC"))
astimezone_utc(d, tod) == toordinal(d) * TicksPerDay + tod + utcoffset(d, tod)

\* an instant written directly in UTC
UtcInstant(d, tod) == toordinal(d) * TicksPerDay + tod

(***************************************************************************)
(* Release schedulers.                                                     *)
(***************************************************************************)
\* the list with the elements of f, built once
List(f) == <<>> \o f

ReleaseTod == 17   \* 08:30 local
DecisionTod == 28  \* 14:00 local
CpiReleaseDay == 10
PpiReleaseDay == 14

\* release_month = month + 1, the year rolling over at month 13; day 1
NextMonthFirst(date) ==
    IF date.month + 1 = 13 THEN Date(date.year + 1, 1, 1)
    ELSE Date(date.year, date.month + 1, 1)

\* WeekendRoll with "if" in place of "while": a single step forward
WeekendRoll_once(d) ==
    IF weekday(d) >= 5 THEN [d EXCEPT !.day = @ + 1] ELSE d

\* while release_dt_local.weekday() >= 5: release_day += 1
RECURSIVE WeekendRoll(_)
WeekendRoll(d) ==
    IF weekday(d) >= 5 THEN WeekendRoll([d EXCEPT !.day = @ + 1]) ELSE d

\* the local release date of one CPI observation
CpiReleaseLocal(date) ==
    WeekendRoll([NextMonthFirst(date) EXCEPT !.day = CpiReleaseDay])

get_cpi_release_schedule(s) ==
    List([i \in 1..Len(s) |-> astimezone_utc(CpiReleaseLocal(s[i].date), ReleaseTod)])

\* the local release date of one PPI observation
PpiReleaseLocal(date) ==
    WeekendRoll([NextMonthFirst(date) EXCEPT !.day = PpiReleaseDay])

get_ppi_release_schedule(s) ==
    List([i \in 1..Len(s) |-> astimezone_utc(PpiReleaseLocal(s[i].date), ReleaseTod)])

\* FirstFriday with 3 in place of 4: the first Thursday
RECURSIVE FirstFriday_thursday(_)
FirstFriday_thursday(d) == IF weekday(d) # 3 THEN FirstFriday_thursday(NextDay(d)) ELSE d

\* while release_dt.weekday() != 4: release_dt += pd.Timedelta(days=1)
RECURSIVE FirstFriday(_)
FirstFriday(d) == IF weekday(d) # 4 THEN FirstFriday(NextDay(d)) ELSE d

NfpReleaseLocal(date) == FirstFriday(NextMonthFirst(date))

get_nfp_release_schedule(s) ==
    List([i \in 1..Len(s) |-> astimezone_utc(NfpReleaseLocal(s[i].date), ReleaseTod)])

\* FomcLoop without "prev_rate = rate" after the first observation
RECURSIVE FomcLoop_stale(_, _, _, _)
FomcLoop_stale(s, i, prev, rate_changes) ==
    IF i > Len(s) THEN rate_changes
    ELSE IF prev = <<>> \/ s[i].value # prev[1]
         THEN FomcLoop_stale(s, i + 1, IF prev = <<>> THEN <<s[i].value>> ELSE prev,
                  Append(rate_changes,
                         [Datetime |-> astimezone_utc(s[i].date, DecisionTod),
                          value |-> s[i].value]))
         ELSE FomcLoop_stale(s, i + 1, prev, rate_changes)

\* the loop of get_fomc_decision_times; prev is <<>> for None, <<rate>> otherwise
RECURSIVE FomcLoop(_, _, _, _)
FomcLoop(s, i, prev, rate_changes) ==
    IF i > Len(s) THEN rate_changes
    ELSE IF prev = <<>> \/ s[i].value # prev[1]
         THEN FomcLoop(s, i + 1, <<s[i].value>>,
                  Append(rate_changes,
                         [Datetime |-> astimezone_utc(s[i].date, DecisionTod),
                          value |-> s[i].value]))
         ELSE FomcLoop(s, i + 1, prev, rate_changes)

get_fomc_decision_times(s) == FomcLoop(s, 1, <<>>, <<>>)

\* the sequences sort_values("Datetime") may return: the default quicksort
\* is not stable, so rows with equal keys may come out in either order
SortValues(rows) ==
    IF Len(rows) = 0 THEN {<<>>}
    ELSE { [i \in 1..Len(rows) |-> rows[p[i]]] :
             p \in { q \in Permutations(1..Len(rows)) :
                       \A i, j \in 1..Len(rows) :
                           i < j => rows[q[i]].Datetime <= rows[q[j]].Datetime } }

\* tz_localize(NY).dt.normalize() + Timedelta(hours=8, minutes=30), in UTC:
\* the offset is the one in force at local midnight
GdpReleaseInstant(d) == astimezone_utc(d, 0) + ReleaseTod

\* build_gdp_release_timestamps before its final sort: the rows that have a
\* release date and a value, each at 08:30 local of its release date
GdpReleaseRows(gdp_df) ==
    LET kept == SelectSeq(gdp_df, LAMBDA o : o.realtime_start # NaTDate /\ o.value # NaN)
    IN  List([i \in 1..Len(kept) |->
                 [Datetime |-> GdpReleaseInstant(kept[i].realtime_start),
                  value |-> kept[i].value]])

\* df.dropna(subset=["date", "realtime_start", "value"])
WellFormed(o) == o.date # NaTDate /\ o.realtime_start # NaTDate /\ o.value # NaN

\* (date, realtime_start) of a is before that of b
VintageBefore(a, b) ==
    \/ toordinal(a.date) < toordinal(b.date)
    \/ /\ a.date = b.date
       /\ toordinal(a.realtime_start) < toordinal(b.realtime_start)

\* sort_values(["date", "realtime_start"]) of the first i rows: with two
\* keys pandas sorts lexicographically and stably, so rows with equal keys
\* keep their order
RECURSIVE sort_values_date_vintage(_, _)
sort_values_date_vintage(df, i) ==
    IF i = 0 THEN <<>>
    ELSE LET sorted == sort_values_date_vintage(df, i - 1)
             n == Cardinality({j \in 1..Len(sorted) : ~VintageBefore(df[i], sorted[j])})
         IN  SubSeq(sorted, 1, n) \o <<df[i]>> \o SubSeq(sorted, n + 1, Len(sorted))

\* the rows of df whose position is in keep, in the order of df
RECURSIVE Take(_, _, _)
Take(df, keep, i) ==
    IF i > Len(df) THEN <<>>
    ELSE (IF i \in keep THEN <<df[i]>> ELSE <<>>) \o Take(df, keep, i + 1)

\* drop_duplicates keeping the last row of every date
drop_duplicates_last(df) ==
    Take(df, {i \in 1..Len(df) : \A j \in (i + 1)..Len(df) : df[j].date # df[i].date}, 1)

\* drop_duplicates(subset=["date"], keep="first")
drop_duplicates(df) ==
    Take(df, {i \in 1..Len(df) : \A j \in 1..(i - 1) : df[j].date # df[i].date}, 1)

\* fetch_gdp_initial_release once the observations are received
fetch_gdp_initial_release(data) ==
    LET df == SelectSeq(data, WellFormed)
    IN  sort_values_date_vintage(df, Len(df))

\* gdp_initial of the main block of GDP_Data.py: one row per observation date
gdp_initial(data) ==
    LET fetched == fetch_gdp_initial_release(data)
    IN  drop_duplicates(sort_values_date_vintage(fetched, Len(fetched)))

(***************************************************************************)
(* Aligners.  A column is a sequence of floats, one per row of the frame.  *)
(***************************************************************************)
Max(S) == CHOOSE x \in S : \A y \in S : y <= x

Min(S) == CHOOSE x \in S : \A y \in S : x <= y

\* pd.to_datetime(..., errors="coerce") followed by dropna()
dropna(idx) == SelectSeq(idx, LAMBDA t : t # NaT)

\* pd.DataFrame(index=hourly_index, columns=[...], dtype=float)
EmptyColumn(idx) == List([k \in 1..Len(idx) |-> NaN])

\* NextTime with the last value expiring one hour after its own release
NextTime_expiring(rel, idx, i) ==
    IF i < Len(rel) THEN rel[i + 1] ELSE rel[i] + TicksPerHour

\* the end of the interval of release i: the next release, or one hour
\* after the last row of the timeline
NextTime(rel, idx, i) ==
    IF i < Len(rel) THEN rel[i + 1] ELSE idx[Len(idx)] + TicksPerHour

\* InMask with ">" in place of ">=": the release instant itself left out
InMask_exclusive(t, rel_time, next_time) == t > rel_time /\ t < next_time

\* mask = (df.index >= rel_time) & (df.index < next_time)
InMask(t, rel_time, next_time) == t >= rel_time /\ t < next_time

\* for i, rel_time in enumerate(release_times): df.loc[mask, col] = vals[i]
RECURSIVE MaskLoop(_, _, _, _, _)
MaskLoop(rel, vals, idx, i, col) ==
    IF i > Len(rel) THEN col
    ELSE MaskLoop(rel, vals, idx, i + 1,
             List([k \in 1..Len(idx) |->
                      IF InMask(idx[k], rel[i], NextTime(rel, idx, i))
                      THEN vals[i] ELSE col[k]]))

\* Ffill filling in the other direction
Ffill_backward(col) ==
    List([k \in 1..Len(col) |->
             LET below == {j \in k..Len(col) : col[j] # NaN}
             IN  IF below = {} THEN NaN
                 ELSE col[CHOOSE x \in below : \A y \in below : x <= y]])

\* fillna(method='ffill'): the last value present at or above the row
Ffill(col) ==
    List([k \in 1..Len(col) |->
             LET above == {j \in 1..k : col[j] # NaN}
             IN  IF above = {} THEN NaN ELSE col[Max(above)]])

\* fillna(method='bfill'): the first value present at or below the row
Bfill(col) ==
    List([k \in 1..Len(col) |->
             LET below == {j \in k..Len(col) : col[j] # NaN}
             IN  IF below = {} THEN NaN ELSE col[Min(below)]])

Frame(idx, col) ==
    [k \in 1..Len(idx) |-> [Datetime |-> idx[k], value |-> col[k]]]

ValuesOf(s) == List([i \in 1..Len(s) |-> s[i].value])

DatetimesOf(s) == List([i \in 1..Len(s) |-> s[i].Datetime])

\* hourly_index[-1] raises IndexError on an empty index; it is evaluated
\* for the last release
MaskRaises(rel, idx) == Len(rel) > 0 /\ Len(idx) = 0

\* list(zip(cpi_yoy.values, cpi_mom.values)): as long as the shorter one
cpi_values(yoy, mom) ==
    [i \in 1..(IF Len(yoy) <= Len(mom) THEN Len(yoy) ELSE Len(mom)) |->
        <<yoy[i].value, mom[i].value>>]

\* the frame align_cpi_to_hours returns
align_cpi_to_hours(yoy, mom, idx) ==
    LET rel == get_cpi_release_schedule(yoy)
        cv == cpi_values(yoy, mom)
        yoycol == Ffill(MaskLoop(rel, [i \in 1..Len(cv) |-> cv[i][1]], idx, 1, EmptyColumn(idx)))
        momcol == Ffill(MaskLoop(rel, [i \in 1..Len(cv) |-> cv[i][2]], idx, 1, EmptyColumn(idx)))
    IN  [k \in 1..Len(idx) |->
            [Datetime |-> idx[k], value |-> yoycol[k], CPI_MoM |-> momcol[k]]]

align_ppi_to_hours(ppi_yoy, idx) ==
    Frame(idx, Ffill(MaskLoop(get_ppi_release_schedule(ppi_yoy), ValuesOf(ppi_yoy),
                              idx, 1, EmptyColumn(idx))))

align_nfp_to_hours(nfp_changes, idx) ==
    Frame(idx, Ffill(MaskLoop(get_nfp_release_schedule(nfp_changes), ValuesOf(nfp_changes),
                              idx, 1, EmptyColumn(idx))))

align_rate_to_hours(rate_changes, idx) ==
    Frame(idx, Bfill(MaskLoop(DatetimesOf(rate_changes), ValuesOf(rate_changes),
                              idx, 1, EmptyColumn(idx))))

\* merge_asof with allow_exact_matches=False: only releases before the row
merge_asof_strict(left, right) ==
    List([k \in 1..Len(left) |->
             LET upto == {j \in 1..Len(right) : right[j].Datetime < left[k].Datetime}
             IN  IF upto = {} THEN NaN ELSE right[Max(upto)].value])

\* pd.merge_asof(timeline, releases, on="Datetime", direction="backward"):
\* for each left row the last right row whose key is <= the left key
merge_asof(left, right) ==
    List([k \in 1..Len(left) |->
             LET upto == {j \in 1..Len(right) : right[j].Datetime <= left[k].Datetime}
             IN  IF upto = {} THEN NaN ELSE right[Max(upto)].value])

\* the frames align_to_hourly may return (one for each outcome of its sorts)
align_to_hourly(gdp_release_df, idx) ==
    LET valid == dropna(idx)
        timelineRows == List([k \in 1..Len(valid) |-> [Datetime |-> valid[k]]])
        releaseRows == SelectSeq(gdp_release_df, LAMBDA r : r.Datetime # NaT)
    IN  { Frame(DatetimesOf(tl), Bfill(Ffill(merge_asof(tl, rl)))) :
            tl \in SortValues(timelineRows), rl \in SortValues(releaseRows) }

(***************************************************************************)
(* Rates computed from an index (cpi_inflation_hourly.py).  A rate is in   *)
(* tenths of a percent, rounded towards zero.                              *)
(***************************************************************************)
\* cpi_series.pct_change(periods) * 100: absent on the first rows
pct_change(s, periods) ==
    List([i \in 1..Len(s) |->
             [date |-> s[i].date,
              value |-> IF i <= periods THEN NaN
                        ELSE ((s[i].value - s[i - periods].value) * 1000)
                                 \div s[i - periods].value]])

\* Series.dropna()
dropna_series(s) == SelectSeq(s, LAMBDA o : o.value # NaN)

\* the two series compute_inflation_rates returns, each with the dates it
\* has a rate for
compute_inflation_rates(cpi_series) ==
    [cpi_yoy |-> dropna_series(pct_change(cpi_series, 12)),
     cpi_mom |-> dropna_series(pct_change(cpi_series, 1))]

(***************************************************************************)
(* The hourly sentiment aggregator (news_data.py).  A mean is a fraction   *)
(* in lowest terms; the mean of nothing is NaN.                            *)
(***************************************************************************)
None == "None"     \* a field the feed did not carry

NaNMean == [num |-> 0, den |-> 0]

RECURSIVE GCD(_, _)
GCD(a, b) == IF b = 0 THEN a ELSE GCD(b, a % b)

RECURSIVE SumSeq(_)
SumSeq(xs) == IF Len(xs) = 0 THEN 0 ELSE Head(xs) + SumSeq(Tail(xs))

\* Mean with 0.0 for the mean of nothing
Mean_zero(xs) ==
    LET present == SelectSeq(xs, LAMBDA x : x # NaN)
        g == GCD(SumSeq(present), Len(present))
    IN  IF Len(present) = 0 THEN [num |-> 0, den |-> 1]
        ELSE [num |-> SumSeq(present) \div g, den |-> Len(present) \div g]

\* "mean": the mean of the values present, NaN when there is none
Mean(xs) ==
    LET present == SelectSeq(xs, LAMBDA x : x # NaN)
        g == GCD(SumSeq(present), Len(present))
    IN  IF Len(present) = 0 THEN NaNMean
        ELSE [num |-> SumSeq(present) \div g, den |-> Len(present) \div g]

\* replace(minute=0, second=0, microsecond=0), and the bin of resample("1H")
floor_hour(t) == t - (t % TicksPerHour)

\* the aggregates of the rows of one bin; "count" counts the urls present
Agg(rows) ==
    [ticker_sentiment_mean |->
         Mean(List([i \in 1..Len(rows) |-> rows[i].ticker_sentiment_score])),
     overall_sentiment_mean |->
         Mean(List([i \in 1..Len(rows) |-> rows[i].overall_sentiment_score])),
     ticker_relevance_mean |->
         Mean(List([i \in 1..Len(rows) |-> rows[i].ticker_relevance_score])),
     news_count |-> Len(SelectSeq(rows, LAMBDA r : r.url # None))]

\* the bins of groupby("ticker").resample("1H") for ticker t: every hour
\* from that of its first row to that of its last row
ResampleBins(df, t) ==
    LET hours == {floor_hour(df[i].time_published) :
                     i \in {j \in 1..Len(df) : df[j].ticker = t}}
    IN  {h \in Min(hours)..Max(hours) : h % TicksPerHour = 0}

\* hourly.loc[t] at bin h
hourly(df, t, h) ==
    Agg(SelectSeq(df, LAMBDA r : r.ticker = t /\ floor_hour(r.time_published) = h))

\* pd.date_range(start=start_hour, end=end_hour, freq="1H")
all_hours(start, end) ==
    List([k \in 1..((floor_hour(end) - floor_hour(start)) \div TicksPerHour + 1) |->
             floor_hour(start) + (k - 1) * TicksPerHour])

\* h_t.reindex(all_hours) with news_count filled with 0, as rows of ticker t
TickerFrame(df, t, hours) ==
    List([k \in 1..Len(hours) |->
             LET h_t == IF hours[k] \in ResampleBins(df, t)
                        THEN hourly(df, t, hours[k])
                        ELSE [ticker_sentiment_mean |-> NaNMean,
                              overall_sentiment_mean |-> NaNMean,
                              ticker_relevance_mean |-> NaNMean,
                              news_count |-> 0]
             IN  [Datetime |-> hours[k],
                  ticker |-> t,
                  news_count |-> h_t.news_count,
                  overall_sentiment_mean |-> h_t.overall_sentiment_mean,
                  ticker_sentiment_mean |-> h_t.ticker_sentiment_mean,
                  ticker_relevance_mean |-> h_t.ticker_relevance_mean]])

\* the tickers, in the order groupby and the final sort put them
TickerOrder == <<"AAPL", "MSFT">>

\* the frames of the tickers from position i on that have rows in df
RECURSIVE ConcatFrames(_, _, _)
ConcatFrames(df, hours, i) ==
    IF i > Len(TickerOrder) THEN <<>>
    ELSE (IF \E j \in 1..Len(df) : df[j].ticker = TickerOrder[i]
          THEN TickerFrame(df, TickerOrder[i], hours) ELSE <<>>)
         \o ConcatFrames(df, hours, i + 1)

aggregate_to_hourly(df, start, end) ==
    IF Len(df) = 0 THEN <<>>
    ELSE ConcatFrames(df, all_hours(start, end), 1)

(***************************************************************************)
(* The windowed fetch of news_data.py.  The datetimes given to it are      *)
(* tz-aware (UTC instants).                                                *)
(***************************************************************************)
\* dt.strftime("%Y%m%dT%H%M"): the day, then the time of the day
format_time_alpha(dt) == <<dt \div TicksPerDay, dt % TicksPerDay>>

\* the order of two formatted times
TimeLeq(a, b) == a[1] < b[1] \/ (a[1] = b[1] /\ a[2] <= b[2])

\* min(window_start + timedelta(days=window_days - 1), end_dt_utc)
WindowEnd(ws, days_, end) == Min({ws + (days_ - 1) * TicksPerDay, end})

\* AfterWindow that asks for the same window again
AfterWindow_stay(ws, we) == ws

\* window_start = window_end + timedelta(days=1), after a request that
\* succeeded and after one that raised alike
AfterWindow(ws, we) == we + TicksPerDay

\* the elements of a set of instants, earliest first
RECURSIVE Earliest(_)
Earliest(S) == IF S = {} THEN <<>> ELSE <<Min(S)>> \o Earliest(S \ {Min(S)})

\* the rows parse_news_feed makes of the answer to one request: the
\* articles published from time_from to time_to, sort=EARLIEST
WindowRows(f, ws, we) ==
    LET inside == {t \in f : /\ TimeLeq(format_time_alpha(ws), format_time_alpha(t))
                             /\ TimeLeq(format_time_alpha(t), format_time_alpha(we))}
        sorted == Earliest(inside)
    IN  List([i \in 1..Len(sorted) |-> [ticker |-> "AAPL", time_published |-> sorted[i]]])

\* df.sort_values("time_published") of the first i rows; rows of the same
\* instant are the same row, so their order does not show
RECURSIVE sort_values_time_published(_, _)
sort_values_time_published(rows, i) ==
    IF i = 0 THEN <<>>
    ELSE LET sorted == sort_values_time_published(rows, i - 1)
             n == Cardinality({j \in 1..Len(sorted) :
                                  sorted[j].time_published <= rows[i].time_published})
         IN  SubSeq(sorted, 1, n) \o <<rows[i]>> \o SubSeq(sorted, n + 1, Len(sorted))

(***************************************************************************)
(* Argument domains.                                                       *)
(***************************************************************************)
Values == {10, 12}

RECURSIVE SeqsOfLen(_, _)
SeqsOfLen(S, n) ==
    IF n = 0 THEN {<<>>}
    ELSE { Append(s, x) : s \in SeqsOfLen(S, n - 1), x \in S }

SeqsUpTo(S, n) == UNION { SeqsOfLen(S, k) : k \in 0..n }

MonthlyDates == {Date(2022, 12, 1), Date(2023, 1, 1), Date(2023, 2, 1)}

MonthlyObs == [date : MonthlyDates, value : Values]

\* the observations given to the aligners that schedule their own releases
AlignedObs == [date : {Date(2023, 1, 1), Date(2023, 2, 1)}, value : Values]

\* one observation for every month of FirstYear..LastYear
CalendarSweep ==
    { <<[date |-> Date(y, m, 1), value |-> 10]>> : y \in FirstYear..LastYear, m \in 1..12 }

DailyDates == {Date(2023, 1, 31), Date(2023, 2, 1), Date(2023, 2, 2)}

DailyObs == [date : DailyDates, value : Values]

\* 2023-03-12 is the Sunday on which daylight saving time starts
VintageDates == {Date(2023, 1, 26), Date(2023, 3, 12), Date(2023, 4, 27)}

GdpObs == [date : {Date(2022, 10, 1)}, realtime_start : VintageDates, value : Values]

\* rows without a release date or without a value
MalformedGdpObs ==
    {[date |-> Date(2022, 10, 1), realtime_start |-> NaTDate, value |-> 10],
     [date |-> Date(2022, 10, 1), realtime_start |-> Date(2023, 1, 26), value |-> NaN]}

\* the observations FRED may return to the main block of GDP_Data.py:
\* two quarters, two vintages each, and rows that cannot be parsed
FredGdpObs ==
    [date : {Date(2022, 7, 1), Date(2022, 10, 1)},
     realtime_start : {Date(2023, 1, 26), Date(2023, 4, 27)},
     value : Values]
    \cup
    {[date |-> NaTDate, realtime_start |-> Date(2023, 1, 26), value |-> 10],
     [date |-> Date(2022, 7, 1), realtime_start |-> NaTDate, value |-> 10],
     [date |-> Date(2022, 10, 1), realtime_start |-> Date(2023, 1, 26), value |-> NaN]}

\* the stock timelines the main blocks read
StockTimelines ==
    {<<UtcInstant(Date(2023, 2, 1), 0)>>,
     <<UtcInstant(Date(2023, 2, 1), 0), UtcInstant(Date(2023, 2, 3), 28),
       UtcInstant(Date(2023, 4, 1), 0)>>}

\* the month that is k months after January 2022
MonthFrom2022(k) == Date(2022 + (k \div 12), (k % 12) + 1, 1)

\* monthly CPI index levels from 2022-01 on, rising by more every month or
\* by the same amount every month
CpiIndexSeries ==
    UNION { {List([i \in 1..n |-> [date |-> MonthFrom2022(i - 1),
                                   value |-> 1000 + 5 * i * (i - 1)]]),
             List([i \in 1..n |-> [date |-> MonthFrom2022(i - 1),
                                   value |-> 1000 + 10 * i]])} : n \in 0..CpiMonths }

\* daily rate series in the order of their dates
AscendingDailySeries ==
    { s \in SeqsUpTo(DailyObs, MaxObs) :
        \A i, j \in 1..Len(s) : i < j => toordinal(s[i].date) < toordinal(s[j].date) }

\* article rows as parse_news_feed builds them: with or without a url,
\* with or without an overall score
ArticleInstants ==
    {UtcInstant(Date(2023, 2, 1), 1),     \* 2023-02-01T00:30Z
     UtcInstant(Date(2023, 2, 1), 2),     \* 2023-02-01T01:00Z
     UtcInstant(Date(2023, 2, 1), 6)}     \* 2023-02-01T03:00Z

ArticleFields ==
    {[url |-> "u", overall_sentiment_score |-> 10,
      ticker_sentiment_score |-> 12, ticker_relevance_score |-> 8],
     [url |-> "u", overall_sentiment_score |-> 12,
      ticker_sentiment_score |-> 12, ticker_relevance_score |-> 10],
     [url |-> None, overall_sentiment_score |-> 10,
      ticker_sentiment_score |-> 12, ticker_relevance_score |-> 8],
     [url |-> "u", overall_sentiment_score |-> NaN,
      ticker_sentiment_score |-> 12, ticker_relevance_score |-> 8]}

Articles ==
    { [ticker |-> t, time_published |-> i, url |-> f.url,
       overall_sentiment_score |-> f.overall_sentiment_score,
       ticker_sentiment_score |-> f.ticker_sentiment_score,
       ticker_relevance_score |-> f.ticker_relevance_score] :
        t \in {"AAPL", "MSFT"}, i \in ArticleInstants, f \in ArticleFields }

\* frames whose score columns are float columns: each holds a number
ArticleFrames ==
    { df \in SeqsUpTo(Articles, MaxArticles) :
        Len(df) > 0 => \E i \in 1..Len(df) : df[i].overall_sentiment_score # NaN }

\* the grids: 00:00 .. 04:00 and 01:00 .. 03:00 of 2023-02-01
Grids ==
    {<<UtcInstant(Date(2023, 2, 1), 1), UtcInstant(Date(2023, 2, 1), 8)>>,
     <<UtcInstant(Date(2023, 2, 1), 2), UtcInstant(Date(2023, 2, 1), 7)>>}

\* the hours of the timeline: before, at and between the release instants
TimelineInstants ==
    {UtcInstant(Date(2023, 2, 1), 0),     \* 2023-02-01T00:00Z
     UtcInstant(Date(2023, 2, 3), 28),    \* 2023-02-03T14:00Z
     UtcInstant(Date(2023, 3, 3), 27),    \* 2023-03-03T13:30Z
     UtcInstant(Date(2023, 4, 1), 0)}     \* 2023-04-01T00:00Z

\* timelines in which one timestamp could not be parsed
CoercedTimelines ==
    {<<NaT>>} \cup UNION { {<<NaT, t>>, <<t, NaT>>} : t \in TimelineInstants }

Timelines == SeqsUpTo(TimelineInstants, MaxTl) \cup CoercedTimelines

EventInstants ==
    {UtcInstant(Date(2023, 2, 3), 27), UtcInstant(Date(2023, 3, 3), 27)}

ReleaseEvents == [Datetime : EventInstants, value : Values]

\* the month-over-month series that accompanies a year-over-year series:
\* the same months, or the same months after one earlier month
MomSeries(yoy) ==
    LET same == [i \in 1..Len(yoy) |-> [date |-> yoy[i].date, value |-> yoy[i].value + 1]]
    IN  {same, <<[date |-> Date(2022, 11, 1), value |-> 9]>> \o same}

ScheduleFns == {"get_cpi_release_schedule", "get_ppi_release_schedule",
                "get_nfp_release_schedule"}

SeriesAlignFns == {"align_ppi_to_hours", "align_nfp_to_hours"}

EventAlignFns == {"align_rate_to_hours", "align_to_hourly"}

AlignFns == {"align_cpi_to_hours"} \cup SeriesAlignFns \cup EventAlignFns

\* the arguments of the aligners
IndicatorAlignArgs ==
    \/ /\ fn = "align_cpi_to_hours"
       /\ series \in SeqsUpTo(AlignedObs, MaxEvents)
       /\ cpi_mom \in MomSeries(series)
       /\ events = <<>>
       /\ hourly_index \in Timelines
    \/ /\ fn \in SeriesAlignFns
       /\ series \in SeqsUpTo(AlignedObs, MaxEvents)
       /\ cpi_mom = <<>> /\ events = <<>>
       /\ hourly_index \in Timelines
    \/ /\ fn \in EventAlignFns
       /\ events \in SeqsUpTo(ReleaseEvents, MaxEvents)
       /\ series = <<>> /\ cpi_mom = <<>>
       /\ hourly_index \in Timelines

\* the arguments of the schedulers and of the main blocks
IndicatorArgs ==
    \/ /\ fn \in ScheduleFns
       /\ series \in SeqsUpTo(MonthlyObs, MaxObs) \cup CalendarSweep
       /\ cpi_mom = <<>> /\ events = <<>> /\ hourly_index = <<>>
    \/ /\ fn = "get_fomc_decision_times"
       /\ series \in SeqsUpTo(DailyObs, MaxObs)
       /\ cpi_mom = <<>> /\ events = <<>> /\ hourly_index = <<>>
    \/ /\ fn = "build_gdp_release_timestamps"
       /\ series \in SeqsUpTo(GdpObs \cup MalformedGdpObs, MaxObs)
       /\ cpi_mom = <<>> /\ events = <<>> /\ hourly_index = <<>>
    \/ /\ fn = "GDP_Data.__main__"
       /\ series \in SeqsUpTo(FredGdpObs, MaxObs)
       /\ cpi_mom = <<>> /\ events = <<>>
       /\ hourly_index \in StockTimelines
    \/ /\ fn = "cpi_inflation_hourly.__main__"
       /\ series \in CpiIndexSeries
       /\ cpi_mom = <<>> /\ events = <<>>
       /\ hourly_index \in Timelines
    \/ /\ fn = "fomc_rate_hourly.__main__"
       /\ series \in AscendingDailySeries
       /\ cpi_mom = <<>> /\ events = <<>>
       /\ hourly_index \in Timelines
    \/ IndicatorAlignArgs

\* the first day of the fetch ranges
FetchDay == UtcInstant(Date(2023, 2, 1), 0)

\* the ranges: from midnight or noon of the first day to a midnight up to
\* MaxDays later, to 10:00 of the next day, or to the day before
FetchStarts == {FetchDay, FetchDay + 12 * TicksPerHour}

FetchEnds ==
    {FetchDay + k * TicksPerDay : k \in 0..MaxDays}
    \cup {FetchDay - TicksPerDay, FetchDay + TicksPerDay + 10 * TicksPerHour}

\* the articles the API may hold: at most two, at midnight of the first and
\* third day and at 10:00 of the first and second day
FeedInstants ==
    {FetchDay, FetchDay + 10 * TicksPerHour,
     FetchDay + TicksPerDay + 10 * TicksPerHour, FetchDay + 2 * TicksPerDay}

Feeds == {f \in SUBSET FeedInstants : Cardinality(f) <= 2}

Init ==
    /\ pc = "call"
    /\ result = <<>>
    /\ err = ""
    /\ window_start = 0
    /\ all_rows = <<>>
    /\ calls = <<>>
    /\ \/ /\ IndicatorArgs
          /\ df_articles = <<>> /\ start_dt_utc = 0 /\ end_dt_utc = 0
          /\ window_days = 0 /\ feed = {}
       \/ /\ fn = "aggregate_to_hourly"
          /\ df_articles \in ArticleFrames
          /\ \E grid \in Grids : start_dt_utc = grid[1] /\ end_dt_utc = grid[2]
          /\ series = <<>> /\ cpi_mom = <<>> /\ events = <<>> /\ hourly_index = <<>>
          /\ window_days = 0 /\ feed = {}
       \/ /\ fn = "fetch_news_sentiment_for_ticker"
          /\ start_dt_utc \in FetchStarts
          /\ end_dt_utc \in FetchEnds
          /\ window_days \in 1..MaxWindowDays
          /\ feed \in Feeds
          /\ series = <<>> /\ cpi_mom = <<>> /\ events = <<>> /\ hourly_index = <<>>
          /\ df_articles = <<>>


Return(v) ==
    /\ pc = "call"
    /\ pc' = "return"
    /\ result' = v
    /\ UNCHANGED <<fn, series, cpi_mom, events, hourly_index, df_articles,
                   start_dt_utc, end_dt_utc, window_days, feed, window_start,
                   all_rows, calls, err>>

Raise(e) ==
    /\ pc = "call"
    /\ pc' = "raise"
    /\ err' = e
    /\ UNCHANGED <<fn, series, cpi_mom, events, hourly_index, df_articles,
                   start_dt_utc, end_dt_utc, window_days, feed, window_start,
                   all_rows, calls, result>>

GetCpiReleaseSchedule ==
    /\ fn = "get_cpi_release_schedule"
    /\ Return(get_cpi_release_schedule(series))

GetPpiReleaseSchedule ==
    /\ fn = "get_ppi_release_schedule"
    /\ Return(get_ppi_release_schedule(series))

GetNfpReleaseSchedule ==
    /\ fn = "get_nfp_release_schedule"
    /\ Return(get_nfp_release_schedule(series))

GetFomcDecisionTimes ==
    /\ fn = "get_fomc_decision_times"
    /\ Return(get_fomc_decision_times(series))

BuildGdpReleaseTimestamps ==
    /\ fn = "build_gdp_release_timestamps"
    /\ \E sorted \in SortValues(GdpReleaseRows(series)) : Return(sorted)

AlignCpiToHours ==
    /\ fn = "align_cpi_to_hours"
    /\ IF Len(cpi_mom) < Len(series) \/ MaskRaises(series, dropna(hourly_index))
       THEN Raise("IndexError")
       ELSE Return(align_cpi_to_hours(series, cpi_mom, dropna(hourly_index)))

AlignPpiToHours ==
    /\ fn = "align_ppi_to_hours"
    /\ IF MaskRaises(series, dropna(hourly_index))
       THEN Raise("IndexError")
       ELSE Return(align_ppi_to_hours(series, dropna(hourly_index)))

AlignNfpToHours ==
    /\ fn = "align_nfp_to_hours"
    /\ IF MaskRaises(series, dropna(hourly_index))
       THEN Raise("IndexError")
       ELSE Return(align_nfp_to_hours(series, dropna(hourly_index)))

AlignRateToHours ==
    /\ fn = "align_rate_to_hours"
    /\ IF MaskRaises(events, dropna(hourly_index))
       THEN Raise("IndexError")
       ELSE Return(align_rate_to_hours(events, dropna(hourly_index)))

AlignToHourly ==
    /\ fn = "align_to_hourly"
    /\ \E out \in align_to_hourly(events, hourly_index) : Return(out)

\* the main block of GDP_Data.py: fetch, keep the initial releases, build
\* the release instants, align them to the stock timeline.  pd.DataFrame of
\* no observations has no "date" column; the assert follows the build.
GdpMain ==
    /\ fn = "GDP_Data.__main__"
    /\ IF Len(series) = 0
       THEN Raise("KeyError")
       ELSE IF Len(GdpReleaseRows(gdp_initial(series))) = 0
       THEN Raise("AssertionError")
       ELSE \E gdp_release \in SortValues(GdpReleaseRows(gdp_initial(series))) :
            \E gdp_hourly \in align_to_hourly(gdp_release, hourly_index) :
                Return([gdp_initial |-> gdp_initial(series),
                        gdp_release |-> gdp_release,
                        gdp_hourly |-> gdp_hourly])

\* the main block of cpi_inflation_hourly.py: the two rate series of
\* compute_inflation_rates go to align_cpi_to_hours as they are
CpiMain ==
    /\ fn = "cpi_inflation_hourly.__main__"
    /\ LET rates == compute_inflation_rates(series)
       IN  IF MaskRaises(rates.cpi_yoy, dropna(hourly_index))
           THEN Raise("IndexError")
           ELSE Return(align_cpi_to_hours(rates.cpi_yoy, rates.cpi_mom,
                                          dropna(hourly_index)))

\* the main block of fomc_rate_hourly.py
FomcMain ==
    /\ fn = "fomc_rate_hourly.__main__"
    /\ LET decisions == get_fomc_decision_times(series)
       IN  IF MaskRaises(decisions, dropna(hourly_index))
           THEN Raise("IndexError")
           ELSE Return(align_rate_to_hours(decisions, dropna(hourly_index)))

AggregateToHourly ==
    /\ fn = "aggregate_to_hourly"
    /\ Return(aggregate_to_hourly(df_articles, start_dt_utc, end_dt_utc))

\* all_rows = []; window_start = start_dt_utc
FetchBegin ==
    /\ fn = "fetch_news_sentiment_for_ticker"
    /\ pc = "call"
    /\ pc' = "loop"
    /\ window_start' = start_dt_utc
    /\ all_rows' = <<>>
    /\ UNCHANGED <<fn, series, cpi_mom, events, hourly_index, df_articles,
                   start_dt_utc, end_dt_utc, window_days, feed, calls, result, err>>

\* one iteration in which call_news_sentiment returns
FetchWindow ==
    /\ fn = "fetch_news_sentiment_for_ticker"
    /\ pc = "loop"
    /\ window_start <= end_dt_utc
    /\ LET window_end == WindowEnd(window_start, window_days, end_dt_utc)
       IN  /\ calls' = Append(calls, [window_start |-> window_start,
                                      window_end |-> window_end, ok |-> TRUE])
           /\ all_rows' = all_rows \o WindowRows(feed, window_start, window_end)
           /\ window_start' = AfterWindow(window_start, window_end)
    /\ UNCHANGED <<fn, series, cpi_mom, events, hourly_index, df_articles,
                   start_dt_utc, end_dt_utc, window_days, feed, pc, result, err>>

\* one iteration in which call_news_sentiment raises: the window is skipped
SkipWindow ==
    /\ fn = "fetch_news_sentiment_for_ticker"
    /\ pc = "loop"
    /\ window_start <= end_dt_utc
    /\ LET window_end == WindowEnd(window_start, window_days, end_dt_utc)
       IN  /\ calls' = Append(calls, [window_start |-> window_start,
                                      window_end |-> window_end, ok |-> FALSE])
           /\ window_start' = AfterWindow(window_start, window_end)
    /\ UNCHANGED <<fn, series, cpi_mom, events, hourly_index, df_articles,
                   start_dt_utc, end_dt_utc, window_days, feed, all_rows, pc,
                   result, err>>

\* the loop is left: an empty frame, or the rows sorted by time_published
FetchReturn ==
    /\ fn = "fetch_news_sentiment_for_ticker"
    /\ pc = "loop"
    /\ ~(window_start <= end_dt_utc)
    /\ pc' = "return"
    /\ result' = IF all_rows = <<>> THEN <<>>
                 ELSE sort_values_time_published(all_rows, Len(all_rows))
    /\ UNCHANGED <<fn, series, cpi_mom, events, hourly_index, df_articles,
                   start_dt_utc, end_dt_utc, window_days, feed, window_start,
                   all_rows, calls, err>>

Next ==
    \/ GetCpiReleaseSchedule
    \/ GetPpiReleaseSchedule
    \/ GetNfpReleaseSchedule
    \/ GetFomcDecisionTimes
    \/ BuildGdpReleaseTimestamps
    \/ AlignCpiToHours
    \/ AlignPpiToHours
    \/ AlignNfpToHours
    \/ AlignRateToHours
    \/ AlignToHourly
    \/ GdpMain
    \/ CpiMain
    \/ FomcMain
    \/ AggregateToHourly
    \/ FetchBegin
    \/ FetchWindow
    \/ SkipWindow
    \/ FetchReturn

Spec == Init /\ [][Next]_vars

(***************************************************************************)
(* What the properties speak of.                                           *)
(***************************************************************************)
Returned == pc = "return"

Done == pc \in {"return", "raise"}

NonDecreasing(s) == \A i, j \in 1..Len(s) : i < j => s[i] <= s[j]

Increasing(s) == \A i, j \in 1..Len(s) : i < j => s[i] < s[j]

\* the release events an aligner works on, in the order it is given them
EventsOf(rel, s) ==
    List([i \in 1..Len(s) |-> [Datetime |-> rel[i], value |-> s[i].value]])

AlignedEvents ==
    CASE fn = "align_cpi_to_hours" -> EventsOf(get_cpi_release_schedule(series), series)
      [] fn = "align_ppi_to_hours" -> EventsOf(get_ppi_release_schedule(series), series)
      [] fn = "align_nfp_to_hours" -> EventsOf(get_nfp_release_schedule(series), series)
      [] OTHER -> events

\* the timeline once the unparseable timestamps are gone
ValidTimeline == dropna(hourly_index)

Ascending(E) == NonDecreasing(DatetimesOf(E))

AscendingInputs == Ascending(AlignedEvents) /\ NonDecreasing(ValidTimeline)

\* the events of E already public at t
VisibleAt(E, t) == {i \in 1..Len(E) : E[i].Datetime <= t}

\* the values of the latest events of E public at t
LatestValuesAt(E, t) ==
    LET vis == VisibleAt(E, t)
    IN  {E[i].value : i \in {j \in vis : \A h \in vis : E[h].Datetime <= E[j].Datetime}}

\* the instants and events of the example scenarios
Feb01_0000 == UtcInstant(Date(2023, 2, 1), 0)

Feb03_1330 == UtcInstant(Date(2023, 2, 3), 27)

Feb03_1400 == UtcInstant(Date(2023, 2, 3), 28)

Mar03_1330 == UtcInstant(Date(2023, 3, 3), 27)

Apr01_0000 == UtcInstant(Date(2023, 4, 1), 0)

ExampleTimeline == <<Feb01_0000, Feb03_1400, Apr01_0000>>

ExampleEvents ==
    <<[Datetime |-> Feb03_1330, value |-> 10], [Datetime |-> Mar03_1330, value |-> 12]>>

\* the payroll changes of January and February 2023, released on the first
\* Fridays of February and March: the events of the example
ExampleNfp ==
    <<[date |-> Date(2023, 1, 1), value |-> 10], [date |-> Date(2023, 2, 1), value |-> 12]>>

(***************************************************************************)
(* C1.  No-lookahead: whatever the events, on an ascending timeline a value *)
(* an aligner puts at instant t is the value of an event released at or    *)
(* before t, also at the timeline points before the first event.           *)
(***************************************************************************)
C1_NoLookahead ==
    (Returned /\ fn \in AlignFns /\ NonDecreasing(ValidTimeline)) =>
        LET E == AlignedEvents
        IN  \A k \in 1..Len(result) :
                result[k].value # NaN =>
                    \E i \in VisibleAt(E, result[k].Datetime) :
                        E[i].value = result[k].value

(***************************************************************************)
(* C2.  As-of correctness: for ascending events and an ascending timeline, *)
(* at every timeline instant t at which some event is already released     *)
(* (release_instant <= t, equality included) the aligned value is the      *)
(* value of the event with the greatest release instant <= t, for the      *)
(* interval-mask aligners and for the merge_asof aligner alike.            *)
(***************************************************************************)
C2_AsOfCorrect ==
    (Returned /\ fn \in AlignFns /\ NonDecreasing(ValidTimeline)) =>
        LET E == AlignedEvents
        IN  Ascending(E) =>
                \A k \in 1..Len(result) :
                    VisibleAt(E, result[k].Datetime) # {} =>
                        result[k].value \in LatestValuesAt(E, result[k].Datetime)

\* a timeline point half an hour after the first release carries the first
\* event's value, one that is exactly the second release instant the second's
C2_Witness ==
    /\ Returned
    /\ fn = "align_nfp_to_hours"
    /\ series = ExampleNfp
    /\ hourly_index = <<Feb03_1400, Mar03_1330, Apr01_0000>>
    /\ ValuesOf(result) = <<10, 12, 12>>

(***************************************************************************)
(* C3.  Leave-absent policy of align_cpi_to_hours, align_ppi_to_hours and  *)
(* align_nfp_to_hours: with ascending events and timeline, every timeline  *)
(* point before the first release is absent and every point at or after    *)
(* it is present; the example events and timeline give [absent, 1.0, 1.2]. *)
(***************************************************************************)
C3_LeaveAbsent ==
    /\ (Returned /\ fn \in {"align_cpi_to_hours"} \cup SeriesAlignFns
          /\ NonDecreasing(ValidTimeline) /\ Len(series) > 0) =>
         LET E == AlignedEvents
         IN  Ascending(E) =>
                \A k \in 1..Len(result) :
                    /\ result[k].Datetime < E[1].Datetime <=> result[k].value = NaN
                    /\ fn = "align_cpi_to_hours" =>
                          (result[k].Datetime < E[1].Datetime <=> result[k].CPI_MoM = NaN)
    /\ (Returned /\ fn = "align_nfp_to_hours" /\ series = ExampleNfp
          /\ hourly_index = ExampleTimeline) =>
         /\ AlignedEvents = ExampleEvents
         /\ ValuesOf(result) = <<NaN, 10, 12>>

C3_Witness ==
    /\ Returned
    /\ fn = "align_nfp_to_hours"
    /\ series = ExampleNfp
    /\ hourly_index = ExampleTimeline
    /\ ValuesOf(result) = <<NaN, 10, 12>>

(***************************************************************************)
(* C4.  Backward-fill-from-first policy of align_rate_to_hours and         *)
(* align_to_hourly: with a non-empty ascending event sequence and an       *)
(* ascending timeline, every timeline point before the first release       *)
(* takes the first event's value and no output point is absent.            *)
(***************************************************************************)
C4_BackfillFromFirst ==
    (Returned /\ fn \in EventAlignFns /\ AscendingInputs /\ Len(events) > 0) =>
        \A k \in 1..Len(result) :
            /\ result[k].value # NaN
            /\ result[k].Datetime < events[1].Datetime => result[k].value = events[1].value

(***************************************************************************)
(* C5.  An aligner given an event sequence or a timeline that is not       *)
(* ascending fails with an ordering error: it returns nothing.             *)
(***************************************************************************)
C5_FailsFastOnUnsorted ==
    (Done /\ fn \in AlignFns /\ ~AscendingInputs) =>
        (pc = "raise" /\ err = "InvalidOrderingError")

(***************************************************************************)
(* C6.  Scheduler monotonicity: whatever the order of the observations,    *)
(* the release instants a schedule function returns are non-decreasing.    *)
(***************************************************************************)
C6_ScheduleMonotone ==
    /\ (Returned /\ fn \in ScheduleFns) => NonDecreasing(result)
    /\ (Returned /\ fn \in {"get_fomc_decision_times", "build_gdp_release_timestamps"}) =>
          NonDecreasing(DatetimesOf(result))

(***************************************************************************)
(* C7.  Weekend roll of get_cpi_release_schedule (day 10) and              *)
(* get_ppi_release_schedule (day 14): the local release date is a weekday  *)
(* of the month after the observation, never before the target day: the    *)
(* target itself, or target + 2 for a Saturday, target + 1 for a Sunday,   *)
(* which is the nearest weekday on or after the target; at 08:30 local.    *)
(***************************************************************************)
TargetOrdinal(date, day) ==
    toordinal(Date(date.year + (IF date.month = 12 THEN 1 ELSE 0),
                   (date.month % 12) + 1, day))

\* the local calendar day of a release instant: 08:30 in New York is
\* 12:30Z or 13:30Z of the same day
LocalOrdinal(instant) == instant \div TicksPerDay

OrdinalWeekday(o) == (o + EpochWeekday) % 7

RolledTo(instant, target) ==
    LET o == LocalOrdinal(instant)
        wd == OrdinalWeekday(target)
    IN  /\ OrdinalWeekday(o) < 5
        /\ o >= target
        /\ o = target + (IF wd = 5 THEN 2 ELSE IF wd = 6 THEN 1 ELSE 0)
        /\ \A between \in target..(o - 1) : OrdinalWeekday(between) >= 5
        /\ instant - o * TicksPerDay \in {ReleaseTod + 4 * TicksPerHour,
                                          ReleaseTod + 5 * TicksPerHour}

C7_WeekendRoll ==
    /\ (Returned /\ fn = "get_cpi_release_schedule") =>
          /\ Len(result) = Len(series)
          /\ \A i \in 1..Len(series) :
                RolledTo(result[i], TargetOrdinal(series[i].date, CpiReleaseDay))
    /\ (Returned /\ fn = "get_ppi_release_schedule") =>
          /\ Len(result) = Len(series)
          /\ \A i \in 1..Len(series) :
                RolledTo(result[i], TargetOrdinal(series[i].date, PpiReleaseDay))

\* the CPI of May 2023: 10 June 2023 is a Saturday, the release is on the 12th
C7_Witness ==
    /\ Returned
    /\ fn = "get_cpi_release_schedule"
    /\ series = <<[date |-> Date(2023, 5, 1), value |-> 10]>>
    /\ OrdinalWeekday(toordinal(Date(2023, 6, 10))) = 5
    /\ LocalOrdinal(result[1]) = toordinal(Date(2023, 6, 12))

(***************************************************************************)
(* C8.  Change-triggered scheduling of get_fomc_decision_times: an event   *)
(* is emitted for observation i exactly when i is the first observation or *)
(* its rate differs from that of observation i - 1, at 14:00 local of its  *)
(* date; so consecutive events carry different rates and the first event   *)
(* carries the first observation's rate.                                   *)
(***************************************************************************)
Emitting == {i \in 1..Len(series) : i = 1 \/ series[i].value # series[i - 1].value}

\* the k-th emitting observation
NthEmitting(k) == CHOOSE i \in Emitting : Cardinality({j \in Emitting : j <= i}) = k

C8_ChangeTriggered ==
    (Returned /\ fn = "get_fomc_decision_times") =>
        /\ Len(result) = Cardinality(Emitting)
        /\ \A k \in 1..Len(result) :
              /\ result[k].value = series[NthEmitting(k)].value
              /\ LocalOrdinal(result[k].Datetime) = toordinal(series[NthEmitting(k)].date)
              /\ result[k].Datetime - LocalOrdinal(result[k].Datetime) * TicksPerDay
                    \in {DecisionTod + 4 * TicksPerHour, DecisionTod + 5 * TicksPerHour}
        /\ \A k \in 1..(Len(result) - 1) : result[k].value # result[k + 1].value
        /\ Len(series) > 0 => result[1].value = series[1].value

\* a change followed by an unchanged rate: two events from three observations
C8_Witness ==
    /\ Returned
    /\ fn = "get_fomc_decision_times"
    /\ Len(series) = 3
    /\ series[2].value # series[1].value
    /\ series[3].value = series[2].value
    /\ Len(result) = 2
    /\ result[2].value = series[2].value

(***************************************************************************)
(* C9.  Trailing hold: with ascending events and an ascending timeline,    *)
(* every timeline point at or after the last release carries the last      *)
(* event's value, however long after it.  (For align_to_hourly, whose sort *)
(* may reorder events released at the very same instant, the value of an   *)
(* event released at the last release instant.)                            *)
(***************************************************************************)
C9_TrailingHold ==
    (Returned /\ fn \in AlignFns /\ NonDecreasing(ValidTimeline)) =>
        LET E == AlignedEvents
            last == E[Len(E)]
        IN  (Len(E) > 0 /\ Ascending(E)) =>
                \A k \in 1..Len(result) :
                    result[k].Datetime >= last.Datetime =>
                        IF fn = "align_to_hourly"
                        THEN result[k].value \in
                                {E[i].value : i \in {j \in 1..Len(E) :
                                    E[j].Datetime = last.Datetime}}
                        ELSE result[k].value = last.value

\* four weeks after the last decision, and nothing on the timeline between
C9_Witness ==
    /\ Returned
    /\ fn = "align_rate_to_hours"
    /\ events = ExampleEvents
    /\ hourly_index = <<Feb03_1400, Apr01_0000>>
    /\ ValuesOf(result) = <<10, 12>>

(***************************************************************************)
(* C10.  Output shape: for an ascending timeline of valid instants without *)
(* duplicates and any event sequence, an aligner returns exactly one row   *)
(* per timeline entry, in the same order; the number of events has no      *)
(* influence on the number of rows.                                        *)
(***************************************************************************)
C10_OutputShape ==
    (Done /\ fn \in AlignFns /\ ValidTimeline = hourly_index /\ Increasing(hourly_index)) =>
        /\ Returned
        /\ DatetimesOf(result) = hourly_index

(***************************************************************************)
(* C11.  Empty observations are not an error: a schedule function given no *)
(* observation returns no event, an aligner given no event and a non-empty *)
(* timeline returns a frame that is absent at every point, and no main     *)
(* block (that of GDP_Data.py included) raises because it has no usable    *)
(* observation.                                                            *)
(***************************************************************************)
MainBlocks ==
    {"GDP_Data.__main__", "cpi_inflation_hourly.__main__", "fomc_rate_hourly.__main__"}

\* the observations a main block can use
UsableObservations ==
    IF fn = "GDP_Data.__main__" THEN SelectSeq(series, WellFormed) ELSE series

C11_EmptyObservationsNoError ==
    /\ (Done /\ series = <<>>
          /\ fn \in ScheduleFns \cup {"get_fomc_decision_times",
                                      "build_gdp_release_timestamps"}) =>
          (Returned /\ result = <<>>)
    /\ (Done /\ fn \in AlignFns /\ series = <<>> /\ events = <<>>
          /\ Len(ValidTimeline) > 0) =>
          /\ Returned
          /\ Len(result) = Len(ValidTimeline)
          /\ \A k \in 1..Len(result) : result[k].value = NaN
    /\ (Done /\ fn \in MainBlocks /\ UsableObservations = <<>>) => Returned

(***************************************************************************)
(* C12.  Duplicate release instants: with ascending events and timeline,   *)
(* of the events that share a release instant the later-listed one wins:   *)
(* every timeline point at or after that instant and before the next       *)
(* distinct release carries its value, and every value of the output is    *)
(* the value of an event that is the last listed of its instant.           *)
(***************************************************************************)
\* the events that no later-listed event of the same instant overwrites
LastListed(E) ==
    {i \in 1..Len(E) : \A j \in (i + 1)..Len(E) : E[j].Datetime # E[i].Datetime}

C12_LaterListedWins ==
    (Returned /\ fn \in AlignFns /\ NonDecreasing(ValidTimeline)) =>
        LET E == AlignedEvents
        IN  Ascending(E) =>
                \A k \in 1..Len(result) :
                    /\ result[k].value # NaN =>
                          \E i \in LastListed(E) : E[i].value = result[k].value
                    /\ \A i \in LastListed(E) :
                          (/\ E[i].Datetime <= result[k].Datetime
                           /\ \A j \in 1..Len(E) :
                                 E[j].Datetime <= E[i].Datetime
                                    \/ E[j].Datetime > result[k].Datetime) =>
                              result[k].value = E[i].value

(***************************************************************************)
(* C13.  Initial-release selection of the main block of GDP_Data.py: of    *)
(* the usable observations exactly one per observation date is kept        *)
(* before the release instants are built, the one with the earliest        *)
(* realtime_start of its date, and of those that tie on realtime_start     *)
(* the one that comes first in the input.                                  *)
(***************************************************************************)
C13_InitialReleaseSelected ==
    (Returned /\ fn = "GDP_Data.__main__") =>
        LET kept == result.gdp_initial
            wf == {i \in 1..Len(series) : WellFormed(series[i])}
        IN  /\ \A d \in {series[i].date : i \in wf} :
                  Cardinality({k \in 1..Len(kept) : kept[k].date = d}) = 1
            /\ \A k \in 1..Len(kept) :
                  \E i \in wf :
                      /\ kept[k] = series[i]
                      /\ \A j \in wf :
                            series[j].date = series[i].date =>
                                \/ toordinal(series[i].realtime_start)
                                      < toordinal(series[j].realtime_start)
                                \/ /\ series[i].realtime_start = series[j].realtime_start
                                   /\ (i <= j \/ series[i] = series[j])

\* three vintages of the fourth quarter of 2022: the later one listed first,
\* then two of 2023-01-26 with different values; the first of these is kept
C13_Witness ==
    /\ Returned
    /\ fn = "GDP_Data.__main__"
    /\ series = <<[date |-> Date(2022, 10, 1), realtime_start |-> Date(2023, 4, 27), value |-> 10],
                  [date |-> Date(2022, 10, 1), realtime_start |-> Date(2023, 1, 26), value |-> 12],
                  [date |-> Date(2022, 10, 1), realtime_start |-> Date(2023, 1, 26), value |-> 10]>>
    /\ result.gdp_initial = <<series[2]>>

(***************************************************************************)
(* C14.  Malformed observations: build_gdp_release_timestamps and the      *)
(* fetch of the main block drop an observation without a date, a release   *)
(* date or a value and do not fail for it; every well-formed observation   *)
(* still yields its release event; and the caller learns how many were     *)
(* dropped: what it gets back when rows were dropped differs from what it  *)
(* gets back for the well-formed rows alone.                               *)
(***************************************************************************)
\* the rows build_gdp_release_timestamps can use
Buildable(gdp_df) ==
    SelectSeq(gdp_df, LAMBDA o : o.realtime_start # NaTDate /\ o.value # NaN)

\* how often row r occurs in the sequence rows
Occurrences(rows, r) == Cardinality({i \in 1..Len(rows) : rows[i] = r})

C14_MalformedDroppedAndCounted ==
    /\ (Done /\ fn = "build_gdp_release_timestamps") =>
          /\ Returned
          /\ Len(result) = Len(Buildable(series))
          /\ \A i \in 1..Len(Buildable(series)) :
                LET r == [Datetime |-> GdpReleaseInstant(Buildable(series)[i].realtime_start),
                          value |-> Buildable(series)[i].value]
                IN  Occurrences(result, r)
                       = Occurrences(GdpReleaseRows(Buildable(series)), r)
          /\ Len(Buildable(series)) < Len(series) =>
                result \notin SortValues(GdpReleaseRows(Buildable(series)))
    /\ (Done /\ fn = "GDP_Data.__main__" /\ UsableObservations # <<>>) =>
          /\ Returned
          /\ \A i \in 1..Len(UsableObservations) :
                \E k \in 1..Len(result.gdp_initial) :
                    result.gdp_initial[k].date = UsableObservations[i].date

(***************************************************************************)
(* C15.  Idempotence of align_to_hourly: for every event sequence and      *)
(* ascending timeline, its output taken as the event sequence (one         *)
(* (instant, value) pair per timeline point) and aligned again to the same *)
(* timeline gives exactly the same output, whatever the sorts do.          *)
(***************************************************************************)
C15_AlignIdempotent ==
    (Returned /\ fn = "align_to_hourly" /\ NonDecreasing(ValidTimeline)) =>
        align_to_hourly(result, hourly_index) = {result}

\* the example: two releases, three timeline points, a back-filled first one
C15_Witness ==
    /\ Returned
    /\ fn = "align_to_hourly"
    /\ events = ExampleEvents
    /\ hourly_index = ExampleTimeline
    /\ ValuesOf(result) = <<10, 10, 12>>
    /\ align_to_hourly(result, hourly_index) = {result}

(***************************************************************************)
(* C16.  First-weekday scheduling of get_nfp_release_schedule: the local   *)
(* release date of an observation of month M is the first Friday of the    *)
(* month after M (January of the next year for December): a Friday whose   *)
(* day of the month is in 1..7, at 08:30 local time.                       *)
(***************************************************************************)
C16_FirstFriday ==
    (Returned /\ fn = "get_nfp_release_schedule") =>
        /\ Len(result) = Len(series)
        /\ \A i \in 1..Len(series) :
              LET o == LocalOrdinal(result[i])
                  first == TargetOrdinal(series[i].date, 1)
              IN  /\ o - first + 1 \in 1..7
                  /\ OrdinalWeekday(o) = 4
                  /\ result[i] - o * TicksPerDay \in {ReleaseTod + 4 * TicksPerHour,
                                                      ReleaseTod + 5 * TicksPerHour}

\* the payrolls of December 2022 are released on Friday 6 January 2023,
\* at 13:30Z
C16_Witness ==
    /\ Returned
    /\ fn = "get_nfp_release_schedule"
    /\ series = <<[date |-> Date(2022, 12, 1), value |-> 10]>>
    /\ result = <<UtcInstant(Date(2023, 1, 6), 27)>>

(***************************************************************************)
(* C17.  Absence versus zero in aggregate_to_hourly: a row of the output   *)
(* for a ticker and a grid hour in which that ticker has no record has     *)
(* news_count 0 and its three means absent (NaN): not 0.0, and not the     *)
(* mean of a neighbouring hour.                                            *)
(***************************************************************************)
\* the records of ticker t published in [h, h + 1 hour)
RecordsIn(t, h) ==
    {i \in 1..Len(df_articles) :
        /\ df_articles[i].ticker = t
        /\ h <= df_articles[i].time_published
        /\ df_articles[i].time_published < h + TicksPerHour}

C17_AbsentNotZero ==
    (Returned /\ fn = "aggregate_to_hourly") =>
        \A k \in 1..Len(result) :
            RecordsIn(result[k].ticker, result[k].Datetime) = {} =>
                /\ result[k].news_count = 0
                /\ result[k].overall_sentiment_mean = NaNMean
                /\ result[k].ticker_sentiment_mean = NaNMean
                /\ result[k].ticker_relevance_mean = NaNMean

\* an hour without records between two hours with records of the same ticker
C17_Witness ==
    /\ Returned
    /\ fn = "aggregate_to_hourly"
    /\ \E k \in 2..(Len(result) - 1) :
          /\ result[k - 1].ticker = result[k].ticker
          /\ result[k + 1].ticker = result[k].ticker
          /\ result[k - 1].news_count > 0
          /\ result[k - 1].overall_sentiment_mean # NaNMean
          /\ result[k + 1].news_count > 0
          /\ RecordsIn(result[k].ticker, result[k].Datetime) = {}
          /\ result[k].news_count = 0
          /\ result[k].overall_sentiment_mean = NaNMean

(***************************************************************************)
(* C18.  Count of aggregate_to_hourly: in every row of the output          *)
(* news_count is the number of records of the row's ticker published in    *)
(* [h, h + 1 hour), whatever their other fields hold, a missing url or a   *)
(* missing score included.                                                 *)
(***************************************************************************)
C18_CountsEveryRecord ==
    (Returned /\ fn = "aggregate_to_hourly") =>
        \A k \in 1..Len(result) :
            result[k].news_count
                = Cardinality(RecordsIn(result[k].ticker, result[k].Datetime))

(***************************************************************************)
(* C19.  CPI column pairing in the main block of cpi_inflation_hourly.py   *)
(* (compute_inflation_rates, then align_cpi_to_hours): on an ascending     *)
(* timeline, the CPI_YoY and the CPI_MoM written at a point are the rates  *)
(* of one and the same month, the month whose release opened the interval  *)
(* the point lies in.                                                      *)
(***************************************************************************)
C19_SameMonthPaired ==
    (Returned /\ fn = "cpi_inflation_hourly.__main__" /\ NonDecreasing(ValidTimeline)) =>
        LET rates == compute_inflation_rates(series)
            rel == get_cpi_release_schedule(rates.cpi_yoy)
        IN  \A k \in 1..Len(result) :
                result[k].value # NaN =>
                    \E i \in 1..Len(rates.cpi_yoy) :
                        /\ rel[i] <= result[k].Datetime
                        /\ i < Len(rel) => result[k].Datetime < rel[i + 1]
                        /\ result[k].value = rates.cpi_yoy[i].value
                        /\ \E j \in 1..Len(rates.cpi_mom) :
                              /\ rates.cpi_mom[j].date = rates.cpi_yoy[i].date
                              /\ result[k].CPI_MoM = rates.cpi_mom[j].value

(***************************************************************************)
(* C20.  Change-triggered scheduling loses nothing: for an ascending daily *)
(* rate series and an ascending timeline, the main block of                *)
(* fomc_rate_hourly.py (only the change events aligned) gives the frame    *)
(* that aligning one event per daily observation, at 14:00 local of its    *)
(* date, gives; that is, at every point t the rate of the latest           *)
(* observation whose 14:00 instant is <= t, or the first observation's     *)
(* rate when there is none.                                                *)
(***************************************************************************)
\* one event per daily observation
DailyEvents(s) ==
    List([i \in 1..Len(s) |->
             [Datetime |-> astimezone_utc(s[i].date, DecisionTod), value |-> s[i].value]])

C20_ChangeEventsLoseNothing ==
    (Returned /\ fn = "fomc_rate_hourly.__main__" /\ NonDecreasing(ValidTimeline)) =>
        LET D == DailyEvents(series)
        IN  /\ result = align_rate_to_hours(D, ValidTimeline)
            /\ \A k \in 1..Len(result) :
                  LET vis == VisibleAt(D, result[k].Datetime)
                  IN  IF vis = {}
                      THEN Len(series) > 0 => result[k].value = series[1].value
                      ELSE result[k].value = D[Max(vis)].value

(***************************************************************************)
(* C21.  Window coverage of fetch_news_sentiment_for_ticker: the request   *)
(* windows [window_start, window_end] issued for one ticker are ascending  *)
(* and pairwise disjoint, and, once the loop is left, every instant of     *)
(* [start_dt_utc, end_dt_utc] lies in one of them, so that no article      *)
(* published in the range falls between two consecutive windows.           *)
(***************************************************************************)
C21_WindowsCoverRange ==
    fn = "fetch_news_sentiment_for_ticker" =>
        /\ \A i \in 1..Len(calls) : calls[i].window_start <= calls[i].window_end
        /\ \A i \in 1..(Len(calls) - 1) : calls[i].window_end < calls[i + 1].window_start
        /\ Returned =>
              \A t \in start_dt_utc..end_dt_utc :
                  \E i \in 1..Len(calls) :
                      calls[i].window_start <= t /\ t <= calls[i].window_end

(***************************************************************************)
(* C22.  Progress of the fetch loop: for tz-aware start <= end and         *)
(* window_days >= 1, window_start grows strictly in every iteration,       *)
(* whether the request returns or raises; the loop is left after at most   *)
(* ceil((end - start + 1 day) / window_days) requests and the function     *)
(* raises nothing; a window whose request raised is skipped, and the rows  *)
(* of all the other windows are returned.                                  *)
(***************************************************************************)
\* ceil((end - start + 1 day) / window_days)
MaxRequests ==
    (end_dt_utc - start_dt_utc + TicksPerDay + window_days * TicksPerDay - 1)
        \div (window_days * TicksPerDay)

\* the articles of the windows whose request returned
FetchedInstants ==
    {t \in feed : \E i \in 1..Len(calls) :
        /\ calls[i].ok
        /\ calls[i].window_start <= t
        /\ t <= calls[i].window_end}

FetchLoopBounded ==
    (fn = "fetch_news_sentiment_for_ticker" /\ start_dt_utc <= end_dt_utc
       /\ window_days >= 1) =>
        /\ pc # "raise"
        /\ Len(calls) <= MaxRequests
        /\ (pc = "loop" /\ window_start <= end_dt_utc) => Len(calls) < MaxRequests
        /\ Returned =>
              /\ Len(result) = Cardinality(FetchedInstants)
              /\ \A k \in 1..Len(result) : result[k].time_published \in FetchedInstants
              /\ \A t \in FetchedInstants :
                    \E k \in 1..Len(result) : result[k].time_published = t

WindowStartGrows ==
    (fn = "fetch_news_sentiment_for_ticker" /\ pc = "loop" /\ pc' = "loop") =>
        window_start' > window_start

C22_FetchLoopProgress == []FetchLoopBounded /\ [][WindowStartGrows]_vars

\* three one-day windows for three days; the first request raised, the
\* third returned an article
C22_Witness ==
    /\ Returned
    /\ fn = "fetch_news_sentiment_for_ticker"
    /\ window_days = 1
    /\ Len(calls) = 3
    /\ MaxRequests = 3
    /\ ~calls[1].ok
    /\ calls[3].ok
    /\ feed = {FetchDay, FetchDay + 2 * TicksPerDay}
    /\ result = <<[ticker |-> "AAPL", time_published |-> FetchDay + 2 * TicksPerDay]>>

(***************************************************************************)
(* C23.  Empty timeline: an aligner given at least one event and a         *)
(* timeline that is empty, or empty once the invalid timestamps are        *)
(* dropped, returns an empty frame and raises nothing.                     *)
(***************************************************************************)
C23_EmptyTimelineEmptyOutput ==
    (Done /\ fn \in AlignFns /\ Len(AlignedEvents) > 0 /\ ValidTimeline = <<>>) =>
        (Returned /\ result = <<>>)

====
